---------------------------- MODULE Spec2Model ----------------------------
(***************************************************************************)
(* The USB/IP packet codec of src/src/packet.rs and the demo server loop   *)
(* of src/src/testsrv.rs.                                                  *)
(*                                                                         *)
(* A byte is a number in 0..255, a byte string (Vec<u8>, &[u8], String) a  *)
(* sequence of bytes.  A reader (io::Read over a slice or a socket) is the *)
(* sequence of bytes it has not yet delivered; a sink (io::Write) is fed   *)
(* a sequence of write calls.                                              *)
(***************************************************************************)
EXTENDS Integers, Sequences, FiniteSets, TLC

(***************************************************************************)
(* Bounds of the model.                                                    *)
(***************************************************************************)
\* widths 1..MaxWidth and strings of up to MaxWidth+1 bytes in the fixed-string tests
MaxWidth == 3
\* devices in a RepDevList, interfaces in a device record
MaxDevices == 2
MaxInterfaces == 1
\* bytes of CmdSubmit payload, and the values of buffer_length
MaxData == 2
\* packets a client sends after its first one
MaxFollow == 2
\* packets written back to back to one stream
MaxPackets == 2

(***************************************************************************)
(* Bytes and big-endian integers (byteorder's read_uN/write_uN).           *)
(***************************************************************************)
RECURSIVE Pow256(_)
Pow256(k) == IF k = 0 THEN 1 ELSE 256 * Pow256(k - 1)

\* write_u8 / write_u16::<BigEndian> / write_u32::<BigEndian>: w bytes, most significant first
BigEndian(n, w) == [i \in 1..w |-> (n \div Pow256(w - i)) % 256]

RECURSIVE BigEndianSum(_)
BigEndianSum(bs) ==
    IF bs = <<>> THEN 0
    ELSE 256 * BigEndianSum(SubSeq(bs, 1, Len(bs) - 1)) + bs[Len(bs)]

\* read_u8 / read_u16::<BigEndian> / read_u32::<BigEndian> of the bytes bs.  The
\* checker's integers are 32 bits wide and signed, so a u32 of 2^31 or more is held
\* as its value minus 2^32: a one-to-one naming of the u32 values, under which
\* BigEndian above still yields the value's four bytes.
FromBigEndian(bs) ==
    IF Len(bs) = 4 /\ bs[1] >= 128
    THEN BigEndianSum(<<bs[1] - 256>> \o Tail(bs))
    ELSE BigEndianSum(bs)

\* v >= 2^31, for a u32 v
AtLeast2Pow31(v) == v < 0

Zeros(n) == [i \in 1..n |-> 0]

Drop(s, n) == SubSeq(s, n + 1, Len(s))

\* [u8]::is_ascii / str::is_ascii
IsAscii(bs) == \A i \in 1..Len(bs) : bs[i] < 128

(***************************************************************************)
(* Results.  A read returns kind "Ok" with a value, or kind "PacketError"  *)
(* (a protocol error, with the message that tells the causes apart) or     *)
(* kind "IoError"; rest is what the reader still holds afterwards.         *)
(***************************************************************************)
Ok(v, rest) == [kind |-> "Ok", val |-> v, msg |-> "", rest |-> rest]
PacketError(m, rest) == [kind |-> "PacketError", val |-> 0, msg |-> m, rest |-> rest]
\* read_exact on a reader that ends early: UnexpectedEof, the reader is drained
IoError == [kind |-> "IoError", val |-> 0, msg |-> "UnexpectedEof", rest |-> <<>>]

\* read_u8 / read_u16::<BigEndian> / read_u32::<BigEndian>
ReadUint(src, w) ==
    IF Len(src) < w THEN IoError
    ELSE Ok(FromBigEndian(SubSeq(src, 1, w)), Drop(src, w))

(***************************************************************************)
(* A write routine yields the write calls it makes on the sink, in order,  *)
(* and the protocol error that stopped it ("" when it ran to its end).     *)
(***************************************************************************)
WriteAll(bs) == [ops |-> << [call |-> "write_all", bytes |-> bs] >>, err |-> ""]
WriteOnce(bs) == [ops |-> << [call |-> "write", bytes |-> bs] >>, err |-> ""]
WriteNothing == [ops |-> <<>>, err |-> ""]
WriteFail(m) == [ops |-> <<>>, err |-> m]
\* try!(a); b
Then(a, b) == IF a.err # "" THEN a ELSE [ops |-> a.ops \o b.ops, err |-> b.err]
WriteUint(n, w) == WriteAll(BigEndian(n, w))

RECURSIVE OpsBytes(_)
OpsBytes(ops) == IF ops = <<>> THEN <<>> ELSE Head(ops).bytes \o OpsBytes(Tail(ops))

(***************************************************************************)
(* Fixed-width strings.                                                    *)
(***************************************************************************)
\* buf.iter().position(|&x| x == 0), or buf.len() when there is none
NulPosition(buf) ==
    IF \E i \in 1..Len(buf) : buf[i] = 0
    THEN (CHOOSE i \in 1..Len(buf) : buf[i] = 0 /\ \A j \in 1..(i - 1) : buf[j] # 0) - 1
    ELSE Len(buf)

\* read_fix_string testing for ASCII only the bytes before the first NUL
read_fix_string_to_nul(src, len) ==
    IF Len(src) < len THEN IoError
    ELSE LET buf == SubSeq(src, 1, len)
             rest == Drop(src, len)
         IN IF ~IsAscii(SubSeq(buf, 1, NulPosition(buf)))
            THEN PacketError("Read string is not ASCII", rest)
            ELSE Ok(SubSeq(buf, 1, NulPosition(buf)), rest)

read_fix_string(src, len) ==
    IF Len(src) < len THEN IoError
    ELSE LET buf == SubSeq(src, 1, len)
             rest == Drop(src, len)
         IN IF ~IsAscii(buf) THEN PacketError("Read string is not ASCII", rest)
            ELSE Ok(SubSeq(buf, 1, NulPosition(buf)), rest)

\* TooLong off by one: a string as long as the field passes
TooLongOffByOne(s, size) == Len(s) > size

\* s.len() > (size-1): one 0-byte is required at the end.  (size is a usize and
\* never 0 here: the function is private and its callers pass 256, 32, 5 and 3.)
TooLong(s, size) == Len(s) > size - 1

write_fix_string(s, size) ==
    IF TooLong(s, size) THEN WriteFail("Write string is longer than buffer")
    ELSE IF ~IsAscii(s) THEN WriteFail("Write string is not ASCII")
    ELSE Then(WriteAll(s),
              IF Len(s) < size THEN WriteAll(Zeros(size - Len(s))) ELSE WriteNothing)

\* src.read_exact(&mut buf) with buf of n bytes
ReadExact(src, n) ==
    IF AtLeast2Pow31(n) \/ Len(src) < n THEN IoError
    ELSE Ok(SubSeq(src, 1, n), Drop(src, n))

\* try!(r) and then F of its value: an error of r is returned as it is
Try(r, F(_)) == IF r.kind # "Ok" THEN r ELSE F(r)

\* r's value put in front of the values of t
Cons(r, t) == Try(t, LAMBDA x : Ok(<<r.val>> \o x.val, x.rest))

\* consecutive try!(src.read_uN()) of the given widths, in order
RECURSIVE ReadUints(_, _)
ReadUints(src, widths) ==
    IF widths = <<>> THEN Ok(<<>>, src)
    ELSE Try(ReadUint(src, Head(widths)),
             LAMBDA h : Cons(h, ReadUints(h.rest, Tail(widths))))

\* consecutive try!(dst.write_uN(v)) of the given widths, in order
RECURSIVE WriteUints(_, _)
WriteUints(vals, widths) ==
    IF widths = <<>> THEN WriteNothing
    ELSE Then(WriteUint(Head(vals), Head(widths)), WriteUints(Tail(vals), Tail(widths)))

(***************************************************************************)
(* Operation tags, Direction, TransferFlags.                               *)
(***************************************************************************)
TagReqDevList == 17924101   \* 0x01118005
TagRepDevList == 17891333   \* 0x01110005
TagReqImport == 17924099    \* 0x01118003
TagRepImport == 17891331    \* 0x01110003
TagCmdSubmit == 1
TagRetSubmit == 3
TagCmdUnlink == 2
TagRetUnlink == 4

\* PacketTypes::from_u32: the variant's name, or "None"
PacketTypesFromU32(header) ==
    CASE header = TagReqDevList -> "ReqDevList"
      [] header = TagRepDevList -> "RepDevList"
      [] header = TagReqImport -> "ReqImport"
      [] header = TagRepImport -> "RepImport"
      [] header = TagCmdSubmit -> "CmdSubmit"
      [] header = TagRetSubmit -> "RetSubmit"
      [] header = TagCmdUnlink -> "CmdUnlink"
      [] header = TagRetUnlink -> "RetUnlink"
      [] OTHER -> "None"

\* the flag values of the bitflags! block
TransferFlagsAll == {1, 2, 4, 32, 64, 128, 256, 512}

\* the set of bit values set in v (b is the value of v's lowest bit)
RECURSIVE BitsFrom(_, _)
BitsFrom(v, b) ==
    IF v = 0 THEN {}
    ELSE (IF v % 2 = 1 THEN {b} ELSE {}) \cup BitsFrom(v \div 2, 2 * b)

\* TransferFlagsFromU32 on from_bits_truncate: unknown bits are dropped, not refused
TransferFlagsFromU32Truncate(val, rest) ==
    Ok(IF AtLeast2Pow31(val) THEN 0
       ELSE (val % 8) + 32 * ((val \div 32) % 32), rest)

\* TransferFlags::from_u32: from_bits is None when a bit outside the flags is set
TransferFlagsFromU32(val, rest) ==
    IF ~AtLeast2Pow31(val) /\ BitsFrom(val, 1) \subseteq TransferFlagsAll THEN Ok(val, rest)
    ELSE PacketError("Invalid transfer_flags", rest)

\* Direction::from_u32_err
DirectionFromU32Err(val, rest) ==
    CASE val = 1 -> Ok("In", rest)
      [] val = 0 -> Ok("Out", rest)
      [] OTHER -> PacketError("Invalid direction value", rest)

(***************************************************************************)
(* Decoding.                                                               *)
(***************************************************************************)
\* the twelve numeric fields of a device record, busnum .. num_interfaces
DeviceFieldWidths == <<4, 4, 4, 2, 2, 2, 1, 1, 1, 1, 1, 1>>

\* InterfaceDescriptorRead without the read of the padding byte
InterfaceDescriptorReadUnpadded(src) ==
    Try(ReadUints(src, <<1, 1, 1>>),
        LAMBDA r : Ok([interface_class |-> r.val[1], interface_subclass |-> r.val[2],
                       interface_protocol |-> r.val[3]], r.rest))

InterfaceDescriptorRead(src) ==
    Try(ReadUints(src, <<1, 1, 1, 1>>),         \* class, subclass, protocol, padding
        LAMBDA r : Ok([interface_class |-> r.val[1], interface_subclass |-> r.val[2],
                       interface_protocol |-> r.val[3]], r.rest))

\* for _ in 0..n { interfaces.push(try!(InterfaceDescriptor::read(src))) }
RECURSIVE ReadInterfaces(_, _)
ReadInterfaces(src, n) ==
    IF n = 0 THEN Ok(<<>>, src)
    ELSE Try(InterfaceDescriptorRead(src),
             LAMBDA h : Cons(h, ReadInterfaces(h.rest, n - 1)))

DeviceDescriptorValue(path, busid, f, interfaces) ==
    [path |-> path, busid |-> busid,
     busnum |-> f[1], devnum |-> f[2], speed |-> f[3],
     id_vendor |-> f[4], id_product |-> f[5], bcd_device |-> f[6],
     device_class |-> f[7], device_subclass |-> f[8], device_protocol |-> f[9],
     configuration_value |-> f[10], num_configurations |-> f[11],
     num_interfaces |-> f[12], interfaces |-> interfaces]

DeviceDescriptorRead(src) ==
    Try(read_fix_string(src, 256), LAMBDA path :
    Try(read_fix_string(path.rest, 32), LAMBDA busid :
    Try(ReadUints(busid.rest, DeviceFieldWidths), LAMBDA f :
    Try(ReadInterfaces(f.rest, f.val[12]), LAMBDA interfaces :
    Ok(DeviceDescriptorValue(path.val, busid.val, f.val, interfaces.val),
       interfaces.rest)))))

\* for _ in 0..n { devices.push(try!(DeviceDescriptor::read(src))) }
\* (a count of 2^31 or more never counts down to 0: the reader ends first)
RECURSIVE ReadDevices(_, _)
ReadDevices(src, n) ==
    IF n = 0 THEN Ok(<<>>, src)
    ELSE Try(DeviceDescriptorRead(src),
             LAMBDA h : Cons(h, ReadDevices(h.rest, n - 1)))

ReadReqDevlist(src) ==
    Try(ReadUint(src, 4), LAMBDA r : Ok([type |-> "ReqDevList"], r.rest))

RepDevListRead(src) ==
    Try(ReadUints(src, <<4, 4>>), LAMBDA h :            \* status, num_devices
    Try(ReadDevices(h.rest, h.val[2]), LAMBDA devices :
    Ok([type |-> "RepDevList", status |-> h.val[1], num_devices |-> h.val[2],
        devices |-> devices.val], devices.rest)))

ReqImportRead(src) ==
    Try(ReadUint(src, 4), LAMBDA status :
    Try(read_fix_string(status.rest, 32), LAMBDA busid :
    Ok([type |-> "ReqImport", busid |-> busid.val], busid.rest)))

RepImportValue(status, path, busid, f) ==
    [type |-> "RepImport", status |-> status, path |-> path, busid |-> busid,
     busnum |-> f[1], devnum |-> f[2], speed |-> f[3],
     id_vendor |-> f[4], id_product |-> f[5], bcd_device |-> f[6],
     device_class |-> f[7], device_subclass |-> f[8], device_protocol |-> f[9],
     configuration_value |-> f[10], num_configurations |-> f[11],
     num_interfaces |-> f[12]]

\* RepImportRead without the early return on a non-zero status
RepImportReadLong(src) ==
    Try(ReadUint(src, 4), LAMBDA status :
    Try(read_fix_string(status.rest, 256), LAMBDA path :
    Try(read_fix_string(path.rest, 32), LAMBDA busid :
    Try(ReadUints(busid.rest, DeviceFieldWidths), LAMBDA f :
    Ok(RepImportValue(status.val, path.val, busid.val, f.val), f.rest)))))

RepImportRead(src) ==
    Try(ReadUint(src, 4), LAMBDA status :
    IF status.val # 0
    THEN Ok(RepImportValue(status.val, <<>>, <<>>, Zeros(12)), status.rest) ELSE
    Try(read_fix_string(status.rest, 256), LAMBDA path :
    Try(read_fix_string(path.rest, 32), LAMBDA busid :
    Try(ReadUints(busid.rest, DeviceFieldWidths), LAMBDA f :
    Ok(RepImportValue(status.val, path.val, busid.val, f.val), f.rest)))))

\* Option<Vec<u8>>
None == [some |-> FALSE, v |-> <<>>]
Some(v) == [some |-> TRUE, v |-> v]

CmdSubmitValue(a, direction, b, transfer_flags, c, setup, data) ==
    [type |-> "CmdSubmit", seqnum |-> a[1], devid |-> a[2], direction |-> direction,
     ep |-> b[1], transfer_flags |-> transfer_flags, buffer_length |-> c[1],
     start_frame |-> c[2], num_packets |-> c[3], interval |-> c[4],
     setup |-> setup, data |-> data]

\* CmdSubmitReadData without the test of the direction
CmdSubmitReadDataAlways(src, direction, buffer_length) ==
    Try(ReadExact(src, buffer_length), LAMBDA dv : Ok(Some(dv.val), dv.rest))

\* if direction == Direction::Out { read_exact of buffer_length bytes; data = Some(dv) }
CmdSubmitReadData(src, direction, buffer_length) ==
    IF direction = "Out"
    THEN Try(ReadExact(src, buffer_length), LAMBDA dv : Ok(Some(dv.val), dv.rest))
    ELSE Ok(None, src)

CmdSubmitRead(src) ==
    Try(ReadUints(src, <<4, 4, 4>>), LAMBDA a :         \* seqnum, devid, direction word
    Try(DirectionFromU32Err(a.val[3], a.rest), LAMBDA direction :
    Try(ReadUints(direction.rest, <<4, 4>>), LAMBDA b : \* ep, transfer_flags word
    Try(TransferFlagsFromU32(b.val[2], b.rest), LAMBDA transfer_flags :
    Try(ReadUints(transfer_flags.rest, <<4, 4, 4, 4>>), LAMBDA c :  \* buffer_length .. interval
    Try(ReadExact(c.rest, 8), LAMBDA setup :
    Try(CmdSubmitReadData(setup.rest, direction.val, c.val[1]), LAMBDA data :
    Ok(CmdSubmitValue(a.val, direction.val, b.val, transfer_flags.val, c.val,
                      setup.val, data.val), data.rest))))))))

\* PacketReadDispatch with a default arm that falls into the ReqDevList reader
PacketReadDispatchFallsThrough(type, header, rest) ==
    CASE type = "RepDevList" -> RepDevListRead(rest)
      [] type = "ReqImport" -> ReqImportRead(rest)
      [] type = "RepImport" -> RepImportRead(rest)
      [] type = "CmdSubmit" -> CmdSubmitRead(rest)
      [] type = "RetSubmit" -> PacketError("RetSubmit not implemented", rest)
      [] type = "CmdUnlink" -> PacketError("CmdUnlink not implemented", rest)
      [] type = "RetUnlink" -> PacketError("RetUnlink not implemented", rest)
      [] OTHER -> ReadReqDevlist(rest)

\* the match of Packet::read on the tag
PacketReadDispatch(type, header, rest) ==
    CASE type = "ReqDevList" -> ReadReqDevlist(rest)
      [] type = "RepDevList" -> RepDevListRead(rest)
      [] type = "ReqImport" -> ReqImportRead(rest)
      [] type = "RepImport" -> RepImportRead(rest)
      [] type = "CmdSubmit" -> CmdSubmitRead(rest)
      [] type = "RetSubmit" -> PacketError("RetSubmit not implemented", rest)
      [] type = "CmdUnlink" -> PacketError("CmdUnlink not implemented", rest)
      [] type = "RetUnlink" -> PacketError("RetUnlink not implemented", rest)
      [] OTHER -> PacketError("Unknown packet header", rest)

PacketRead(src) ==
    Try(ReadUint(src, 4), LAMBDA header :
        PacketReadDispatch(PacketTypesFromU32(header.val), header.val, header.rest))

(***************************************************************************)
(* Encoding.                                                               *)
(***************************************************************************)
InterfaceDescriptorWrite(i) ==
    WriteUints(<<i.interface_class, i.interface_subclass, i.interface_protocol, 0>>,
               <<1, 1, 1, 1>>)

\* for interface in &self.interfaces { try!(interface.write(dst)) }
RECURSIVE WriteInterfaces(_)
WriteInterfaces(xs) ==
    IF xs = <<>> THEN WriteNothing
    ELSE Then(InterfaceDescriptorWrite(Head(xs)), WriteInterfaces(Tail(xs)))

\* the twelve numeric fields of a device record or a RepImport, in wire order
DeviceFields(d) ==
    <<d.busnum, d.devnum, d.speed, d.id_vendor, d.id_product, d.bcd_device,
      d.device_class, d.device_subclass, d.device_protocol, d.configuration_value,
      d.num_configurations, d.num_interfaces>>

DeviceDescriptorWrite(d) ==
    Then(write_fix_string(d.path, 256),
    Then(write_fix_string(d.busid, 32),
    Then(WriteUints(DeviceFields(d), DeviceFieldWidths),
         WriteInterfaces(d.interfaces))))

\* for dev in &self.devices { try!(dev.write(dst)) }
RECURSIVE WriteDevices(_)
WriteDevices(xs) ==
    IF xs = <<>> THEN WriteNothing
    ELSE Then(DeviceDescriptorWrite(Head(xs)), WriteDevices(Tail(xs)))

WriteReqDevlist ==
    Then(WriteUint(TagReqDevList, 4), WriteUint(0, 4))

RepDevListWrite(p) ==
    Then(WriteUints(<<TagRepDevList, p.status, p.num_devices>>, <<4, 4, 4>>),
         WriteDevices(p.devices))

ReqImportWrite(p) ==
    Then(WriteUints(<<TagReqImport, 0>>, <<4, 4>>),
         write_fix_string(p.busid, 32))

\* RepImportWrite without the early return on a non-zero status
RepImportWriteLong(p) ==
    Then(WriteUints(<<TagRepImport, p.status>>, <<4, 4>>),
         Then(write_fix_string(p.path, 256),
         Then(write_fix_string(p.busid, 32),
              WriteUints(DeviceFields(p), DeviceFieldWidths))))

RepImportWrite(p) ==
    Then(WriteUints(<<TagRepImport, p.status>>, <<4, 4>>),
         IF p.status # 0 THEN WriteNothing ELSE
         Then(write_fix_string(p.path, 256),
         Then(write_fix_string(p.busid, 32),
              WriteUints(DeviceFields(p), DeviceFieldWidths))))

\* the scalar fields CmdSubmit::write emits after the tag, in its order
CmdSubmitWrittenFields(p) ==
    <<p.seqnum, p.devid, p.ep, p.transfer_flags, p.buffer_length, p.start_frame,
      p.num_packets, p.interval>>

CmdSubmitWrite(p) ==
    Then(WriteUint(TagCmdSubmit, 4),
    Then(WriteUints(CmdSubmitWrittenFields(p), [i \in 1..Len(CmdSubmitWrittenFields(p)) |-> 4]),
    Then(WriteOnce(p.setup),
         IF p.data.some THEN WriteOnce(p.data.v) ELSE WriteNothing)))

PacketWrite(p) ==
    CASE p.type = "ReqDevList" -> WriteReqDevlist
      [] p.type = "RepDevList" -> RepDevListWrite(p)
      [] p.type = "ReqImport" -> ReqImportWrite(p)
      [] p.type = "RepImport" -> RepImportWrite(p)
      [] p.type = "CmdSubmit" -> CmdSubmitWrite(p)
      [] p.type = "RetSubmit" -> WriteFail("RetSubmit not implemented")
      [] p.type = "CmdUnlink" -> WriteFail("CmdUnlink not implemented")
      [] p.type = "RetUnlink" -> WriteFail("RetUnlink not implemented")

\* what a write call returns to its caller when the sink takes every byte
WriteResult(w) == IF w.err = "" THEN "Ok" ELSE "PacketError"

(***************************************************************************)
(* Sinks (dst: &mut io::Write).  A Vec<u8> takes every byte it is offered. *)
(* A limited sink takes at most chunk bytes in one write call and cap      *)
(* bytes in all; once it is full, a write call returns Ok(0) (a slice      *)
(* &mut [u8]) or an error (a closed socket).                               *)
(***************************************************************************)
VecSink == [kind |-> "Vec"]

Smallest(a, b) == IF a < b THEN a ELSE b

\* dst.write(bs) on a sink that holds acc bytes: the number of bytes taken, or an error
SinkWrite(sink, acc, bs) ==
    IF sink.kind = "Vec" THEN [n |-> Len(bs), failed |-> FALSE]
    ELSE IF acc >= sink.cap /\ sink.full = "error" THEN [n |-> 0, failed |-> TRUE]
    ELSE [n |-> Smallest(Len(bs), Smallest(sink.chunk, sink.cap - acc)), failed |-> FALSE]

\* dst.write_all(bs): write calls until every byte is taken, where Ok(0) is the
\* error WriteZero.  Every call on a sink with room takes at least one byte, so the
\* loop ends with all of bs taken if the sink has room for it, and otherwise with
\* the sink full and an error.
SinkWriteAll(sink, acc, bs) ==
    IF sink.kind = "Vec" \/ Len(bs) <= sink.cap - acc THEN [n |-> Len(bs), failed |-> FALSE]
    ELSE [n |-> Smallest(Len(bs), sink.cap - acc), failed |-> TRUE]

\* one call of a write routine on the sink: try!(dst.write_all(..)) returns the
\* sink's error; try!(dst.write(..)) returns the sink's error and drops the count
SinkCall(sink, acc, op) ==
    IF op.call = "write_all" THEN SinkWriteAll(sink, acc, op.bytes)
    ELSE SinkWrite(sink, acc, op.bytes)

\* the calls ops made in order on a sink that holds the bytes done: what the sink
\* holds afterwards, and whether a call returned an error (no call follows it)
RECURSIVE Feed(_, _, _)
FeedNext(sink, done, ops, r) ==
    IF r.failed THEN [bytes |-> done \o SubSeq(Head(ops).bytes, 1, r.n), failed |-> TRUE]
    ELSE Feed(sink, done \o SubSeq(Head(ops).bytes, 1, r.n), Tail(ops))

Feed(sink, done, ops) ==
    IF ops = <<>> THEN [bytes |-> done, failed |-> FALSE]
    ELSE FeedNext(sink, done, ops, SinkCall(sink, Len(done), Head(ops)))

\* what Packet::write returns when its calls w go to a sink that answered with f
SinkResult(w, f) == IF f.failed THEN "IoError" ELSE WriteResult(w)


(***************************************************************************)
(* The values the tests encode and the byte streams a client sends.        *)
(***************************************************************************)
Rep(b, n) == [i \in 1..n |-> b]
SeqsUpTo(S, n) == UNION {[1..k -> S] : k \in 0..n}

StrFooBar == <<47, 102, 111, 111, 47, 98, 97, 114>>     \* "/foo/bar"
Str3_2 == <<51, 45, 50>>                                \* "3-2"
\* busnum 3, devnum 2, speed 2, 0x0403, 0x6001, 0x0110, class 9/1/2, 1, 2, and no interface
\* (every byte below 0x80, so that any four of them make a word below 2^31)
SampleFields == <<3, 2, 2, 1027, 24577, 272, 9, 1, 2, 1, 2, 0>>

Interface(i) ==
    [interface_class |-> 23 + i, interface_subclass |-> 26, interface_protocol |-> 29]

\* a device record announcing n interfaces and holding k
Device(path, n, k) ==
    [path |-> path, busid |-> Str3_2, busnum |-> 3, devnum |-> 2, speed |-> 2,
     id_vendor |-> 1027, id_product |-> 24577, bcd_device |-> 272,
     device_class |-> 9, device_subclass |-> 1, device_protocol |-> 2,
     configuration_value |-> 1, num_configurations |-> 2, num_interfaces |-> n,
     interfaces |-> [i \in 1..k |-> Interface(i)]]

Devices == {Device(StrFooBar, n, k) : n \in 0..MaxInterfaces, k \in 0..MaxInterfaces}

\* strings around the 32-byte field: empty, short, with a NUL inside, not ASCII, 31 and 32 bytes
BusIds == {<<>>, Str3_2, <<97, 0, 98>>, <<97, 200>>, Rep(97, 31), Rep(97, 32)}
Paths == {<<>>, StrFooBar, Rep(97, 255), Rep(97, 256)}

SetupBytes == <<0, 6, 0, 1, 0, 0, 0, 18>>
DataBytes(n) == [i \in 1..n |-> 16 + i]

CmdSubmits ==
    {[type |-> "CmdSubmit", seqnum |-> 7, devid |-> 196610, direction |-> d, ep |-> ep,
      transfer_flags |-> fl, buffer_length |-> len, start_frame |-> 0,
      num_packets |-> 0, interval |-> 0, setup |-> SetupBytes, data |-> data] :
        d \in {"In", "Out"}, ep \in {0, 1}, fl \in {0, 513}, len \in 0..MaxData,
        data \in {None} \cup {Some(DataBytes(n)) : n \in 0..MaxData}}

TestPackets ==
    {[type |-> "ReqDevList"]}
    \cup {[type |-> "RepDevList", status |-> 0, num_devices |-> n, devices |-> ds] :
            n \in 0..MaxDevices, ds \in SeqsUpTo(Devices, MaxDevices)}
    \cup {[type |-> "ReqImport", busid |-> b] : b \in BusIds}
    \cup {RepImportValue(st, path, b, f) :
            st \in {0, 1}, path \in Paths, b \in {<<>>, Str3_2},
            f \in {Zeros(12), SampleFields}}
    \cup CmdSubmits
    \cup {[type |-> "RetSubmit"], [type |-> "CmdUnlink"], [type |-> "RetUnlink"]}

NoPacket == [type |-> "None"]

\* the arguments of the fixed-string tests: bytes 'a', NUL and a non-ASCII byte
FixStrings == SeqsUpTo({0, 97, 200}, MaxWidth + 1)
FixWidths == 1..MaxWidth

Words(vals) == OpsBytes(WriteUints(vals, [i \in 1..Len(vals) |-> 4]).ops)

\* the bytes CmdSubmit::read takes as one packet: tag, nine words, setup, payload
CmdSubmitFrame(dirword, flagsword, buflen, payload) ==
    Words(<<TagCmdSubmit, 7, 196610, dirword, 0, flagsword, buflen, 0, 0, 0>>)
    \o SetupBytes \o payload

DeviceFrame(path, n) ==
    path \o Zeros(256 - Len(path)) \o Str3_2 \o Zeros(29)
    \o OpsBytes(WriteUints(<<3, 2, 2, 1027, 24577, 272, 9, 1, 2, 1, 2, n>>,
                           DeviceFieldWidths).ops)
    \o [i \in 1..(4 * n) |-> IF i % 4 = 0 THEN 0 ELSE 20 + i]

RECURSIVE Flatten(_)
Flatten(ss) == IF ss = <<>> THEN <<>> ELSE Head(ss) \o Flatten(Tail(ss))

\* what a client may send as its first packet
FirstFrames ==
    {Words(<<TagReqDevList, 0>>),
     Words(<<TagReqImport, 0>>) \o Str3_2 \o Zeros(29),
     Words(<<TagReqImport, 0>>) \o <<97, 0, 200>> \o Zeros(29),
     Words(<<TagRepImport, 1>>),
     Words(<<TagRepImport, 0>>) \o DeviceFrame(StrFooBar, 0),
     Words(<<5>>), Words(<<17924100>>),
     Words(<<TagRetSubmit>>), Words(<<TagCmdUnlink>>), Words(<<TagRetUnlink>>),
     <<0, 0>>,
     Words(<<TagReqImport, 0>>) \o Str3_2 \o Zeros(28)}
    \cup {Words(<<TagRepDevList, 0, 1>>) \o DeviceFrame(path, n) :
            path \in {StrFooBar, <<97, 200>>}, n \in 0..MaxInterfaces}
    \cup {CmdSubmitFrame(d, fl, len, DataBytes(n)) :
            d \in {0, 1, 2}, fl \in {513, 999, 8, 1024}, len \in 0..MaxData,
            n \in {0, MaxData}}

\* a RepDevList of Len(ns) device records, the i-th with path paths[i] and ns[i] interfaces
DevListFrame(paths, ns) ==
    Words(<<TagRepDevList, 0, Len(ns)>>)
    \o Flatten([i \in 1..Len(ns) |-> DeviceFrame(paths[i], ns[i])])

\* RepDevLists of MaxDevices records with every choice of interface counts, the path
\* of the last record ASCII or not
DevListFrames ==
    {DevListFrame(Rep(StrFooBar, MaxDevices - 1) \o <<p>>, ns) :
        p \in {StrFooBar, <<97, 200>>}, ns \in [1..MaxDevices -> 0..MaxInterfaces]}

\* a connection that ends inside a RepDevList: in the last interface or number field,
\* in the bus id, at the end of the path or in the path of the last record, or
\* in the record before it
TruncatedDevLists ==
    {SubSeq(f, 1, Len(f) - k) : f \in DevListFrames, k \in {1, 30, 56, 60, 320}}

\* and after it
NextFrames ==
    {Words(<<TagReqDevList, 0>>),
     Words(<<TagReqImport, 0>>) \o Str3_2 \o Zeros(29),
     Words(<<6>>)}

ClientStreams ==
    {<<>>}
    \cup {f \o Flatten(g) : f \in FirstFrames \cup DevListFrames,
                            g \in SeqsUpTo(NextFrames, MaxFollow)}
    \cup TruncatedDevLists

\* the canned replies of handle_stream
dl ==
    [type |-> "RepDevList", status |-> 0, num_devices |-> 1,
     devices |-> << [path |-> StrFooBar, busid |-> Str3_2, busnum |-> 3, devnum |-> 2,
                     speed |-> 2, id_vendor |-> 1027, id_product |-> 24577,
                     bcd_device |-> 272, device_class |-> 255, device_subclass |-> 0,
                     device_protocol |-> 0, configuration_value |-> 1,
                     num_configurations |-> 2, num_interfaces |-> 2,
                     interfaces |-> << [interface_class |-> 255,
                                        interface_subclass |-> 26,
                                        interface_protocol |-> 29],
                                       [interface_class |-> 255,
                                        interface_subclass |-> 85,
                                        interface_protocol |-> 2] >>] >>]
ri ==
    RepImportValue(0, StrFooBar, Str3_2, <<3, 2, 2, 1027, 24577, 272, 255, 0, 0, 1, 2, 2>>)

\* the sinks a packet is written to: the Vec of the tests, and limited sinks that
\* take one byte or up to eight per call and are full at once, inside the tag, inside
\* or right behind the setup block of a CmdSubmit, inside its payload, or never
Sinks ==
    {VecSink}
    \cup {[kind |-> "limited", chunk |-> c, cap |-> k, full |-> f] :
            c \in {1, 8}, k \in {0, 3, 40, 44, 45, 4096}, f \in {"zero", "error"}}

\* packets of the four variants without CmdSubmit that satisfy the invariants of the
\* data model: the requests, the replies of handle_stream, an empty device list, a
\* list of MaxDevices records, the longest bus id and path, a refused import
FramePackets ==
    {[type |-> "ReqDevList"], dl, ri,
     [type |-> "RepDevList", status |-> 0, num_devices |-> 0, devices |-> <<>>],
     [type |-> "RepDevList", status |-> 0, num_devices |-> MaxDevices,
      devices |-> [i \in 1..MaxDevices |->
                      Device(StrFooBar, i % (MaxInterfaces + 1), i % (MaxInterfaces + 1))]],
     [type |-> "ReqImport", busid |-> Str3_2],
     [type |-> "ReqImport", busid |-> Rep(97, 31)],
     RepImportValue(1, <<>>, <<>>, Zeros(12)),
     RepImportValue(0, Rep(97, 255), <<>>, Zeros(12))}

FrameQueues == SeqsUpTo(FramePackets, MaxPackets)

\* the packets written to the limited sinks: every CmdSubmit of the tests, the
\* packets above, and a ReqImport that write_fix_string refuses
SinkPackets ==
    CmdSubmits \cup FramePackets \cup {[type |-> "ReqImport", busid |-> <<97, 200>>]}

(***************************************************************************)
(* State.                                                                  *)
(***************************************************************************)
VARIABLES
    pc,     \* where the driver stands: a test of packet.rs, or handle_stream's loop
    pkt,    \* the packet value a test encodes
    str,    \* the string (or raw field bytes) of a fixed-string test
    size,   \* the field width of a fixed-string test
    dst,    \* the Vec<u8> a test writes into
    wres,   \* what the last write returned
    src,    \* the reader: the bytes not yet read
    prev,   \* the reader as it was before the last read
    rres,   \* what the last read returned
    out,    \* the bytes handle_stream has written to its stream
    sink,   \* the sink the packet of a test is written to
    queue,  \* the packets written back to back to one stream
    marks,  \* the length of the stream after each of these writes
    got     \* what each read of that stream returned

vars == <<pc, pkt, str, size, dst, wres, src, prev, rres, out, sink, queue, marks, got>>

NoResult == [kind |-> "None", val |-> 0, msg |-> "", rest |-> <<>>]

Init ==
    /\ dst = <<>> /\ wres = "None"
    /\ prev = <<>> /\ rres = NoResult /\ out = <<>>
    /\ sink = VecSink /\ marks = <<>> /\ got = <<>>
    /\ \/ pc = "test" /\ pkt \in TestPackets
          /\ str = <<>> /\ size = 0 /\ src = <<>> /\ queue = <<>>
       \/ pc = "fix" /\ str \in FixStrings /\ size \in FixWidths
          /\ pkt = NoPacket /\ src = <<>> /\ queue = <<>>
       \/ pc = "loop" /\ src \in ClientStreams
          /\ pkt = NoPacket /\ str = <<>> /\ size = 0 /\ queue = <<>>
       \/ pc = "encode" /\ pkt \in SinkPackets
          /\ str = <<>> /\ size = 0 /\ src = <<>> /\ queue = <<>>
       \/ pc = "frame" /\ queue \in FrameQueues
          /\ pkt = NoPacket /\ str = <<>> /\ size = 0 /\ src = <<>>

(***************************************************************************)
(* The tests of packet.rs: encode into an empty Vec, decode its slice.     *)
(***************************************************************************)
\* dl.write(&mut buf): a Vec takes every byte of every write call
TestWrite ==
    /\ pc = "test"
    /\ LET w == PacketWrite(pkt)
       IN /\ dst' = dst \o OpsBytes(w.ops)
          /\ wres' = WriteResult(w)
    /\ pc' = "written"
    /\ UNCHANGED <<sink, queue, marks, got, pkt, str, size, src, prev, rres, out>>

\* Packet::read(&mut buf.as_slice()), reached when write(..).unwrap() did not panic
TestRead ==
    /\ pc = "written" /\ wres = "Ok"
    /\ prev' = dst
    /\ rres' = PacketRead(dst)
    /\ src' = rres'.rest
    /\ pc' = "decoded"
    /\ UNCHANGED <<sink, queue, marks, got, pkt, str, size, dst, wres, out>>

\* write_fix_string(&mut buf, &s, size)
TestWriteFixString ==
    /\ pc = "fix"
    /\ LET w == write_fix_string(str, size)
       IN /\ dst' = dst \o OpsBytes(w.ops)
          /\ wres' = WriteResult(w)
    /\ pc' = "fix_written"
    /\ UNCHANGED <<sink, queue, marks, got, pkt, str, size, src, prev, rres, out>>

\* read_fix_string(&mut buf.as_slice(), size) on what write_fix_string produced
TestReadBackFixString ==
    /\ pc = "fix_written" /\ wres = "Ok"
    /\ prev' = dst
    /\ rres' = read_fix_string(dst, size)
    /\ src' = rres'.rest
    /\ pc' = "fix_decoded"
    /\ UNCHANGED <<sink, queue, marks, got, pkt, str, size, dst, wres, out>>

\* read_fix_string(&mut data.as_slice(), size) on raw bytes
TestReadFixString ==
    /\ pc = "fix"
    /\ prev' = str
    /\ rres' = read_fix_string(str, size)
    /\ src' = rres'.rest
    /\ pc' = "fix_read"
    /\ UNCHANGED <<sink, queue, marks, got, pkt, str, size, dst, wres, out>>

\* pkt.write(dst) on one of the sinks
TestWriteSink ==
    /\ pc = "encode"
    /\ \E s \in Sinks :
         /\ sink' = s
         /\ dst' = Feed(s, dst, PacketWrite(pkt).ops).bytes
         /\ wres' = SinkResult(PacketWrite(pkt), Feed(s, dst, PacketWrite(pkt).ops))
    /\ pc' = "sunk"
    /\ UNCHANGED <<queue, marks, got, pkt, str, size, src, prev, rres, out>>

(***************************************************************************)
(* Packets written back to back into one Vec, then read from its slice.    *)
(***************************************************************************)
\* queue[i].write(&mut buf).unwrap(), for the next i
FrameWrite ==
    /\ pc = "frame" /\ wres # "PacketError"
    /\ Len(marks) < Len(queue)
    /\ LET w == PacketWrite(queue[Len(marks) + 1])
       IN /\ dst' = dst \o OpsBytes(w.ops)
          /\ wres' = WriteResult(w)
    /\ marks' = Append(marks, Len(dst'))
    /\ src' = dst'
    /\ UNCHANGED <<pc, sink, queue, got, pkt, str, size, prev, rres, out>>

\* Packet::read(&mut slice).unwrap(), once every packet is written
FrameRead ==
    /\ pc = "frame" /\ wres # "PacketError"
    /\ Len(marks) = Len(queue) /\ Len(got) < Len(queue)
    /\ rres.kind \in {"None", "Ok"}
    /\ prev' = src
    /\ rres' = PacketRead(src)
    /\ src' = rres'.rest
    /\ got' = Append(got, rres')
    /\ UNCHANGED <<pc, sink, queue, marks, pkt, str, size, dst, wres, out>>

(***************************************************************************)
(* handle_stream: one action per arm of the match on Packet::read.         *)
(***************************************************************************)
Received == PacketRead(src)

Reads ==
    /\ prev' = src
    /\ rres' = Received
    /\ src' = Received.rest

\* reply.write(&mut stream).unwrap(); stream.flush().unwrap()
Reply(reply) ==
    \/ /\ out' = out \o OpsBytes(PacketWrite(reply).ops)
       /\ pc' = "loop"
    \/ /\ out' = out        \* the socket fails: unwrap panics
       /\ pc' = "panicked"

HandleReqDevList ==
    /\ pc = "loop"
    /\ Received.kind = "Ok" /\ Received.val.type = "ReqDevList"
    /\ Reads
    /\ Reply(dl)
    /\ UNCHANGED <<sink, queue, marks, got, pkt, str, size, dst, wres>>

HandleReqImport ==
    /\ pc = "loop"
    /\ Received.kind = "Ok" /\ Received.val.type = "ReqImport"
    /\ Reads
    /\ Reply(ri)
    /\ UNCHANGED <<sink, queue, marks, got, pkt, str, size, dst, wres>>

HandleUnhandled ==
    /\ pc = "loop"
    /\ Received.kind = "Ok" /\ Received.val.type \notin {"ReqDevList", "ReqImport"}
    /\ Reads
    /\ UNCHANGED <<sink, queue, marks, got, pc, out, pkt, str, size, dst, wres>>

\* HandleInvalid taking the arm of the I/O errors
HandleInvalidCloses ==
    /\ pc = "loop"
    /\ Received.kind = "PacketError"
    /\ Reads
    /\ pc' = "returned"
    /\ UNCHANGED <<sink, queue, marks, got, out, pkt, str, size, dst, wres>>

HandleInvalid ==
    /\ pc = "loop"
    /\ Received.kind = "PacketError"
    /\ Reads
    /\ UNCHANGED <<sink, queue, marks, got, pc, out, pkt, str, size, dst, wres>>

HandleClose ==
    /\ pc = "loop"
    /\ Received.kind \notin {"Ok", "PacketError"}
    /\ Reads
    /\ pc' = "returned"
    /\ UNCHANGED <<sink, queue, marks, got, out, pkt, str, size, dst, wres>>

Next ==
    \/ TestWrite
    \/ TestRead
    \/ TestWriteFixString
    \/ TestReadBackFixString
    \/ TestReadFixString
    \/ TestWriteSink
    \/ FrameWrite
    \/ FrameRead
    \/ HandleReqDevList
    \/ HandleReqImport
    \/ HandleUnhandled
    \/ HandleInvalid
    \/ HandleClose

Spec == Init /\ [][Next]_vars

(***************************************************************************)
(* The properties.                                                         *)
(***************************************************************************)
\* the last read was a Packet::read: prev held the reader before it, src holds it now
AfterPacketRead ==
    /\ pc \in {"decoded", "loop", "returned", "panicked"}
    /\ rres.kind # "None"

Consumed == Len(prev) - Len(src)

\* the i-th 32-bit word of the reader as it was before the last read (the tag is word 0)
PrevHasWords(n) == Len(prev) >= 4 * n
PrevWord(i) == FromBigEndian(SubSeq(prev, 4 * i + 1, 4 * i + 4))

IsCString(s, width) ==
    /\ Len(s) < width
    /\ \A i \in 1..Len(s) : s[i] # 0 /\ s[i] < 128

\* the invariants of the data model
WellFormed(p) ==
    CASE p.type = "ReqDevList" -> TRUE
      [] p.type = "RepDevList" ->
            /\ p.num_devices = Len(p.devices)
            /\ \A i \in 1..Len(p.devices) :
                 /\ p.devices[i].num_interfaces = Len(p.devices[i].interfaces)
                 /\ IsCString(p.devices[i].path, 256)
                 /\ IsCString(p.devices[i].busid, 32)
      [] p.type = "ReqImport" -> IsCString(p.busid, 32)
      [] p.type = "RepImport" ->
            IF p.status # 0 THEN p = RepImportValue(p.status, <<>>, <<>>, Zeros(12))
            ELSE IsCString(p.path, 256) /\ IsCString(p.busid, 32)
      [] p.type = "CmdSubmit" ->
            /\ Len(p.setup) = 8
            /\ p.data.some <=> p.direction = "Out"
            /\ p.data.some => Len(p.data.v) = p.buffer_length
      [] OTHER -> FALSE

\* Direction as u32
DirectionWord(d) == IF d = "In" THEN 1 ELSE 0

\* C1 (as claimed; refuted): whenever a test has written a packet of an implemented
\* variant into an empty buffer and the write succeeded, reading those bytes
\* succeeds and returns a packet equal to the one written.  Stated here for the
\* packets that satisfy the invariants of the data model, which the claim includes.
C1_RoundTrip ==
    (pc = "decoded" /\ WellFormed(pkt)) => (rres.kind = "Ok" /\ rres.val = pkt)

\* C2 (as claimed; refuted): an encoded packet starts with the tag of its variant,
\* and an encoded CmdSubmit is the ten words tag, seqnum, devid, direction, ep,
\* transfer_flags, buffer_length, start_frame, num_packets, interval, then the
\* setup block, then the data bytes if present.
C2_CmdSubmitLayout ==
    (pc = "written" /\ wres = "Ok" /\ pkt.type = "CmdSubmit") =>
        dst = Words(<<TagCmdSubmit, pkt.seqnum, pkt.devid, DirectionWord(pkt.direction),
                      pkt.ep, pkt.transfer_flags, pkt.buffer_length, pkt.start_frame,
                      pkt.num_packets, pkt.interval>>)
              \o pkt.setup \o (IF pkt.data.some THEN pkt.data.v ELSE <<>>)

KnownTags ==
    {TagReqDevList, TagRepDevList, TagReqImport, TagRepImport,
     TagCmdSubmit, TagRetSubmit, TagCmdUnlink, TagRetUnlink}

\* C3: a Packet::read of a reader whose first four bytes are none of the eight
\* tags fails with the unknown-operation protocol error and leaves the reader
\* exactly four bytes further.
C3_UnknownTag ==
    (AfterPacketRead /\ PrevHasWords(1) /\ PrevWord(0) \notin KnownTags) =>
        /\ rres.kind = "PacketError"
        /\ rres.msg = "Unknown packet header"
        /\ src = Drop(prev, 4)

C3_Witness ==
    /\ AfterPacketRead /\ PrevHasWords(1) /\ PrevWord(0) \notin KnownTags
    /\ rres.msg = "Unknown packet header"
    /\ Len(src) >= 4 /\ src = Drop(prev, 4)

\* C4: a successfully decoded CmdSubmit has direction Out exactly when its
\* direction word is 0; then its data is present and is the buffer_length bytes
\* that follow the 48 bytes of tag, words and setup block, and the read took
\* 48 + buffer_length bytes.  With direction In the data is absent and the read
\* took 48 bytes, whatever buffer_length is.
C4_DirectionGatedData ==
    (AfterPacketRead /\ rres.kind = "Ok" /\ rres.val.type = "CmdSubmit") =>
        LET p == rres.val
            L == PrevWord(6)
        IN /\ p.buffer_length = L
           /\ p.direction = (IF PrevWord(3) = 0 THEN "Out" ELSE "In")
           /\ p.data.some <=> p.direction = "Out"
           /\ p.direction = "Out" =>
                /\ Consumed = 48 + L
                /\ p.data.v = SubSeq(prev, 49, 48 + L)
           /\ p.direction = "In" => Consumed = 48
           /\ src = Drop(prev, Consumed)

C4_Witness ==
    /\ AfterPacketRead /\ rres.kind = "Ok" /\ rres.val.type = "CmdSubmit"
    /\ rres.val.direction = "Out" /\ rres.val.buffer_length = MaxData
    /\ Len(rres.val.data.v) = MaxData
    /\ src # <<>>

\* the In case of C4: a buffer_length above 0 and nothing taken after the setup block
C4_WitnessIn ==
    /\ AfterPacketRead /\ rres.kind = "Ok" /\ rres.val.type = "CmdSubmit"
    /\ rres.val.direction = "In" /\ rres.val.buffer_length > 0
    /\ src # <<>> /\ Consumed = 48

\* C5: encoding a RepImport with a non-zero status succeeds with exactly the eight
\* bytes tag, status, whatever the device fields hold; decoding them gives the
\* RepImport of that status with every device field at its default; and a read of
\* a RepImport with a non-zero status takes no byte after the status.
C5_ShortRepImport ==
    /\ (pc \in {"written", "decoded"} /\ pkt.type = "RepImport" /\ pkt.status # 0) =>
          /\ wres = "Ok"
          /\ dst = Words(<<TagRepImport, pkt.status>>)
          /\ Len(dst) = 8
    /\ (pc = "decoded" /\ pkt.type = "RepImport" /\ pkt.status # 0) =>
          /\ rres.kind = "Ok"
          /\ rres.val = RepImportValue(pkt.status, <<>>, <<>>, Zeros(12))
    /\ (AfterPacketRead /\ PrevHasWords(2) /\ PrevWord(0) = TagRepImport
          /\ PrevWord(1) # 0) =>
          /\ rres.kind = "Ok"
          /\ rres.val = RepImportValue(PrevWord(1), <<>>, <<>>, Zeros(12))
          /\ src = Drop(prev, 8)

C5_Witness ==
    /\ pc = "decoded" /\ pkt.type = "RepImport" /\ pkt.status # 0
    /\ pkt.path # <<>> /\ pkt.busnum # 0
    /\ rres.kind = "Ok" /\ rres.val.path = <<>> /\ rres.val.busnum = 0

NoNul(s) == \A i \in 1..Len(s) : s[i] # 0

\* C6 (as claimed; refuted): in a field of width size, writing an ASCII string of at
\* most size-1 bytes succeeds with exactly size bytes, the string and its NUL
\* padding, and reading them back returns the string; writing a string of size
\* bytes or more fails and leaves the sink empty.
C6_FixedStringBoundaryClaimed ==
    /\ (pc \in {"fix_written", "fix_decoded"} /\ IsAscii(str) /\ Len(str) <= size - 1) =>
          /\ wres = "Ok"
          /\ Len(dst) = size
          /\ dst = str \o Zeros(size - Len(str))
    /\ (pc = "fix_decoded" /\ IsAscii(str) /\ Len(str) <= size - 1) =>
          (rres.kind = "Ok" /\ rres.val = str)
    /\ (pc = "fix_written" /\ Len(str) >= size) =>
          (wres = "PacketError" /\ dst = <<>>)

\* C6 (amended): as claimed, but reading back returns the string only when it holds
\* no NUL byte; otherwise it returns the part of the string before its first NUL.
\* The 32-byte bus id of a ReqImport behaves so: 31 bytes are encoded into the 40
\* bytes of the packet, 32 bytes fail after the 8 bytes that precede the field.
C6_FixedStringBoundary ==
    /\ (pc \in {"fix_written", "fix_decoded"} /\ IsAscii(str) /\ Len(str) <= size - 1) =>
          /\ wres = "Ok"
          /\ Len(dst) = size
          /\ dst = str \o Zeros(size - Len(str))
    /\ (pc = "fix_decoded" /\ IsAscii(str) /\ Len(str) <= size - 1) =>
          /\ rres.kind = "Ok"
          /\ NoNul(str) => rres.val = str
          /\ ~NoNul(str) =>
                /\ Len(rres.val) < Len(str)
                /\ rres.val = SubSeq(str, 1, Len(rres.val))
                /\ NoNul(rres.val)
                /\ str[Len(rres.val) + 1] = 0
    /\ (pc = "fix_written" /\ Len(str) >= size) =>
          (wres = "PacketError" /\ dst = <<>>)
    /\ (pc = "written" /\ pkt.type = "ReqImport" /\ IsAscii(pkt.busid)) =>
          IF Len(pkt.busid) <= 31
          THEN wres = "Ok" /\ dst = Words(<<TagReqImport, 0>>) \o pkt.busid
                                    \o Zeros(32 - Len(pkt.busid))
          ELSE wres = "PacketError" /\ dst = Words(<<TagReqImport, 0>>)

C6_Witness ==
    /\ pc = "fix_decoded" /\ size = MaxWidth /\ Len(str) = size - 1
    /\ NoNul(str) /\ rres.kind = "Ok" /\ rres.val = str /\ dst[size] = 0

\* C7: reading a field of which any byte is not ASCII, before or after the first
\* NUL, fails with the protocol error and returns no string; writing a string that
\* holds a byte that is not ASCII fails with a protocol error and writes no byte of
\* the field.
C7_AsciiGuard ==
    /\ (pc = "fix_read" /\ Len(str) >= size /\ \E i \in 1..size : str[i] >= 128) =>
          (rres.kind = "PacketError" /\ rres.msg = "Read string is not ASCII")
    /\ (pc = "fix_written" /\ \E i \in 1..Len(str) : str[i] >= 128) =>
          (wres = "PacketError" /\ dst = <<>>)
    /\ (pc = "written" /\ pkt.type = "ReqImport"
          /\ \E i \in 1..Len(pkt.busid) : pkt.busid[i] >= 128) =>
          (wres = "PacketError" /\ dst = Words(<<TagReqImport, 0>>))
    /\ (AfterPacketRead /\ Len(prev) >= 40 /\ PrevWord(0) = TagReqImport
          /\ \E i \in 9..40 : prev[i] >= 128) =>
          (rres.kind = "PacketError" /\ rres.msg = "Read string is not ASCII")

C7_Witness ==
    /\ pc = "fix_read" /\ Len(str) >= size
    /\ \E i \in 1..size : str[i] = 0 /\ (\A j \in 1..i : str[j] < 128)
                          /\ (\E j \in (i + 1)..size : str[j] >= 128)
    /\ rres.kind = "PacketError"

RECURSIVE Pow2(_)
Pow2(i) == IF i = 0 THEN 1 ELSE 2 * Pow2(i - 1)

\* the word w has a bit outside 0x001, 0x002, 0x004, 0x020, 0x040, 0x080, 0x100, 0x200
UnknownFlagBit(w) ==
    \/ AtLeast2Pow31(w)
    \/ \E i \in 0..30 : /\ Pow2(i) \notin {1, 2, 4, 32, 64, 128, 256, 512}
                        /\ (w \div Pow2(i)) % 2 = 1

\* C8: a read of a CmdSubmit fails with a protocol error when its direction word is
\* neither 0 nor 1, and when its transfer_flags word has a bit outside the known
\* ones; with a direction word of 0 or 1 and only known flag bits it does not fail
\* with a protocol error, and what it returns holds that direction and those flags.
C8_FailClosed ==
    (AfterPacketRead /\ PrevHasWords(1) /\ PrevWord(0) = TagCmdSubmit) =>
        /\ (PrevHasWords(4) /\ PrevWord(3) \notin {0, 1}) =>
              (rres.kind = "PacketError" /\ rres.msg = "Invalid direction value")
        /\ (PrevHasWords(6) /\ PrevWord(3) \in {0, 1} /\ UnknownFlagBit(PrevWord(5))) =>
              (rres.kind = "PacketError" /\ rres.msg = "Invalid transfer_flags")
        /\ (PrevHasWords(6) /\ PrevWord(3) \in {0, 1} /\ ~UnknownFlagBit(PrevWord(5))) =>
              /\ rres.kind # "PacketError"
              /\ rres.kind = "Ok" =>
                    /\ rres.val.transfer_flags = PrevWord(5)
                    /\ DirectionWord(rres.val.direction) = PrevWord(3)

C8_Witness ==
    /\ AfterPacketRead /\ PrevHasWords(6) /\ PrevWord(0) = TagCmdSubmit
    /\ PrevWord(3) = 1 /\ PrevWord(5) = 1024
    /\ rres.kind = "PacketError" /\ rres.msg = "Invalid transfer_flags"

\* the all-flags word 0x3e7 is accepted
C8_WitnessAccepted ==
    /\ AfterPacketRead /\ PrevHasWords(6) /\ PrevWord(0) = TagCmdSubmit
    /\ PrevWord(5) = 999 /\ rres.kind = "Ok" /\ rres.val.transfer_flags = 999

\* C9: in handle_stream a Packet::read that returns a protocol error leaves the
\* loop running with nothing written, and what the loop does next is a
\* Packet::read on the same stream, from where the failed read left it; a
\* Packet::read that returns an I/O error ends handle_stream, after which the
\* stream is neither read nor written.
C9_ServerErrorPolicy ==
    /\ [][(pc = "loop" /\ rres'.kind = "PacketError" /\ prev' = src) =>
            (pc' = "loop" /\ out' = out /\ src' = rres'.rest)]_vars
    /\ [][(pc = "loop" /\ rres.kind = "PacketError") =>
            (prev' = src /\ rres' = PacketRead(src))]_vars
    /\ [][(pc = "loop" /\ rres'.kind = "IoError" /\ prev' = src) =>
            (pc' = "returned" /\ out' = out)]_vars
    /\ [][pc = "returned" => (src' = src /\ out' = out /\ pc' = pc)]_vars

C9_Witness ==
    /\ pc = "loop" /\ rres.kind = "PacketError"
    /\ rres.msg = "Invalid direction value"
    /\ src # <<>> /\ out # <<>>

\* the I/O error of C9: the loop has ended after replies were written
C9_WitnessClosed ==
    /\ pc = "returned" /\ rres.kind = "IoError" /\ out # <<>>

\* complete packets that Packet::read refuses with a protocol error: a 48-byte
\* CmdSubmit without payload whose direction word or transfer_flags word is
\* invalid, a RepDevList of one device whose path is not ASCII
MalformedPackets ==
    {CmdSubmitFrame(2, 513, 0, <<>>), CmdSubmitFrame(0, 8, 0, <<>>),
     CmdSubmitFrame(1, 1024, 0, <<>>),
     Words(<<TagRepDevList, 0, 1>>) \o DeviceFrame(<<97, 200>>, 0)}

\* C10 (as claimed; refuted): when the reader starts with a malformed packet, the
\* Packet::read that fails with the protocol error leaves the reader at the first
\* byte after that packet.
C10_RecoverAtBoundary ==
    \A f \in MalformedPackets :
        (AfterPacketRead /\ pc # "decoded"
           /\ Len(prev) >= Len(f) /\ SubSeq(prev, 1, Len(f)) = f) =>
            (rres.kind = "PacketError" /\ src = Drop(prev, Len(f)))

\* the offset in s behind n device records that start at offset off, each of 312
\* bytes and four more for every interface its last number byte counts; or -1 when
\* s ends before the numbers of one of the records
RECURSIVE RecordsEnd(_, _, _)
RecordsEnd(s, off, n) ==
    IF n = 0 THEN off
    ELSE IF Len(s) < off + 312 THEN -1
    ELSE RecordsEnd(s, off + 312 + 4 * s[off + 312], n - 1)

\* one of the n records at offset off has a path or a bus id that lies within s and
\* is not ASCII, and s holds every byte in front of that field
RECURSIVE BadString(_, _, _)
BadString(s, off, n) ==
    IF n = 0 \/ Len(s) < off + 256 THEN FALSE
    ELSE IF ~IsAscii(SubSeq(s, off + 1, off + 256)) THEN TRUE
    ELSE IF Len(s) < off + 288 THEN FALSE
    ELSE IF ~IsAscii(SubSeq(s, off + 257, off + 288)) THEN TRUE
    ELSE IF Len(s) < off + 312 THEN FALSE
    ELSE IF Len(s) < off + 312 + 4 * s[off + 312] THEN FALSE
    ELSE BadString(s, off + 312 + 4 * s[off + 312], n - 1)

\* the last read was a Packet::read of a reader that started with the RepDevList tag
AfterDevListRead ==
    AfterPacketRead /\ PrevHasWords(1) /\ PrevWord(0) = TagRepDevList

\* the reader ended before the status, the count or the last of the counted records
DevListCutShort ==
    \/ ~PrevHasWords(3)
    \/ RecordsEnd(prev, 12, PrevWord(2)) = -1
    \/ Len(prev) < RecordsEnd(prev, 12, PrevWord(2))

\* what was returned is the RepDevList of the counted records in wire order, and
\* the read took the tag, 8 bytes and 312 + 4 * num_interfaces bytes per record
DevListAsCounted ==
    LET p == rres.val
    IN /\ p.type = "RepDevList"
       /\ PrevHasWords(3) /\ p.status = PrevWord(1) /\ p.num_devices = PrevWord(2)
       /\ Len(p.devices) = p.num_devices
       /\ \A i \in 1..Len(p.devices) :
            LET d == p.devices[i]
                off == RecordsEnd(prev, 12, i - 1)
            IN /\ Len(d.interfaces) = d.num_interfaces
               /\ d.num_interfaces = prev[off + 312]
               /\ d.path = SubSeq(prev, off + 1, off + Len(d.path))
               /\ prev[off + Len(d.path) + 1] = 0
               /\ d.busnum = FromBigEndian(SubSeq(prev, off + 289, off + 292))
               /\ \A k \in 1..Len(d.interfaces) :
                    /\ d.interfaces[k].interface_class = prev[off + 312 + 4 * k - 3]
                    /\ d.interfaces[k].interface_subclass = prev[off + 312 + 4 * k - 2]
                    /\ d.interfaces[k].interface_protocol = prev[off + 312 + 4 * k - 1]
       /\ Consumed = RecordsEnd(prev, 12, p.num_devices)
       /\ Consumed = 4 + 8 + 312 * Len(p.devices)
                     + 4 * Len(Flatten([i \in 1..Len(p.devices) |-> p.devices[i].interfaces]))
       /\ src = Drop(prev, Consumed)

\* C11 (as claimed; refuted): every successful decode of a RepDevList returns
\* num_devices device records, each with num_interfaces interfaces, in wire order,
\* and has taken after the tag 8 bytes and 312 + 4 * num_interfaces bytes per
\* record; when the reader ends earlier the decode fails with an I/O error.
C11_DevListCountsClaimed ==
    AfterDevListRead =>
        /\ rres.kind = "Ok" => DevListAsCounted
        /\ DevListCutShort => rres.kind = "IoError"

\* C11 (amended): as claimed, but when the reader ends earlier the decode fails
\* with an I/O error only if no path or bus id field read before the end holds a
\* byte that is not ASCII; if one does, the decode fails with the protocol error
\* of that string.  In both cases no packet is returned, and a reader that holds
\* all the counted records with ASCII strings is decoded successfully.
C11_DevListCounts ==
    AfterDevListRead =>
        /\ rres.kind = "Ok" => DevListAsCounted
        /\ DevListCutShort => rres.kind # "Ok"
        /\ (DevListCutShort /\ ~(PrevHasWords(3) /\ BadString(prev, 12, PrevWord(2)))) =>
              rres.kind = "IoError"
        /\ (PrevHasWords(3) /\ BadString(prev, 12, PrevWord(2))) =>
              (rres.kind = "PacketError" /\ rres.msg = "Read string is not ASCII")
        /\ (~DevListCutShort /\ ~BadString(prev, 12, PrevWord(2))) => rres.kind = "Ok"

\* MaxDevices records decoded, the first without interface and the last with
\* MaxInterfaces of them, and more bytes behind them in the reader
C11_Witness ==
    /\ AfterDevListRead /\ rres.kind = "Ok"
    /\ Len(rres.val.devices) = MaxDevices
    /\ Len(rres.val.devices[1].interfaces) = 0
    /\ Len(rres.val.devices[MaxDevices].interfaces) = MaxInterfaces
    /\ Consumed = 12 + 312 * MaxDevices + 4 * MaxInterfaces
    /\ src # <<>>

\* the reader ended inside the last interface of the last record
C11_WitnessCutShort ==
    /\ AfterDevListRead /\ PrevHasWords(3) /\ PrevWord(2) = MaxDevices
    /\ RecordsEnd(prev, 12, MaxDevices) = Len(prev) + 1
    /\ rres.kind = "IoError"

\* the bytes Packet::write offers to its sink for the packet of the test
WireBytes == OpsBytes(PacketWrite(pkt).ops)

\* C12 (as claimed; refuted): Packet::write on any sink, also one whose write call
\* takes fewer bytes than it is offered, returns Ok only if the sink holds every
\* byte of the packet; when a byte was not taken it returns an error.
C12_IncompleteOutputReported ==
    pc = "sunk" => (wres = "Ok" => dst = WireBytes)

\* the part of C12 that holds: a packet written with write_all calls only (every
\* variant but CmdSubmit) is reported Ok only if the sink holds all its bytes, and
\* an error of a sink call is returned whatever the variant
EncodeReportsWriteAll ==
    /\ (pc = "sunk" /\ pkt.type # "CmdSubmit") => (wres = "Ok" => dst = WireBytes)
    /\ (pc = "sunk" /\ Feed(sink, <<>>, PacketWrite(pkt).ops).failed) => wres = "IoError"

\* C13: packets of the variants ReqDevList, RepDevList, ReqImport and RepImport
\* that satisfy the invariants of the data model are all written successfully back
\* to back into one stream; then the i-th Packet::read returns the i-th packet and
\* leaves the reader exactly behind the bytes the i-th write produced, and after
\* as many reads as packets the reader is empty.
C13_StreamFraming ==
    (pc = "frame" /\ \A i \in 1..Len(queue) : WellFormed(queue[i])) =>
        /\ wres # "PacketError"
        /\ \A i \in 1..Len(got) :
             /\ got[i].kind = "Ok"
             /\ got[i].val = queue[i]
             /\ got[i].rest = Drop(dst, marks[i])
             /\ Len(dst) - Len(got[i].rest) - (IF i = 1 THEN 0 ELSE marks[i - 1])
                  = Len(OpsBytes(PacketWrite(queue[i]).ops))
        /\ Len(got) = Len(queue) => src = <<>>

\* MaxPackets packets read back, the first a refused import of 8 bytes, the last a
\* device list
C13_Witness ==
    /\ pc = "frame" /\ Len(queue) = MaxPackets /\ Len(got) = MaxPackets
    /\ queue[1].type = "RepImport" /\ queue[1].status # 0 /\ marks[1] = 8
    /\ queue[MaxPackets].type = "RepDevList" /\ Len(queue[MaxPackets].devices) = MaxDevices
    /\ got[MaxPackets].kind = "Ok" /\ got[MaxPackets].val = queue[MaxPackets]
    /\ src = <<>>

=============================================================================
